---- MODULE Spec2Model ----
(***************************************************************************)
(* Model of the spinach RAG backend (Takashi-Matsumura/spinach):           *)
(*   - backend/llm.py          LLMClient.chat_completion, the relay of a   *)
(*                             completion from the LLM server;             *)
(*   - backend/llm.py          create_rag_prompt, the prompt built from    *)
(*                             the retrieved context;                      *)
(*   - backend/routes/documents.py  the document ingestion / management    *)
(*                             handlers over the vector store;             *)
(*   - backend/main.py, backend/config.py  the runtime settings update.    *)
(* The vector store, the chunker and the embedding model (vectordb.py,     *)
(* text_processing.py, embeddings.py) are modelled from their contracts.   *)
(***************************************************************************)
EXTENDS Integers, Sequences, FiniteSets, TLC

VARIABLES
    \* ---- LLMClient.chat_completion (one call of the async generator)
    pc,          \* position of the generator
    messages,    \* the conversation the caller passed
    stream,      \* the stream flag the caller passed
    request,     \* the request the call has built: its url and its payload
    requests,    \* the requests sent to the backend, in order
    backend,     \* the lines the backend's response body consists of
    pos,         \* how many lines of the body aiter_lines() has handed out
    out,         \* what the caller observed: events, then an end or an error
    clientOpen,  \* the httpx.AsyncClient context is entered
    responseOpen,\* the client.stream(...) response context is entered
    transportFailed, \* the connection to the backend has failed
    status_code, \* response.status_code of the backend's response (0: none yet)
    \* ---- the vector store and the document handlers
    store,       \* the records (id, document text, embedding, metadata), in insertion order
    resp,        \* the last request and its response
    latest,      \* history: filename -> the chunks of its most recent successful
                 \* ingestion (none after a deletion or a reset)
    \* ---- configuration
    settings,    \* the global Settings instance
    llm_base_url,\* llm_client.base_url
    sresp,       \* the response of the last update_settings
    \* ---- create_rag_prompt (one call)
    rag_context, \* the retrieved items passed as `context`
    rag_question,\* the user's question passed as `question`
    rag_prompt   \* the string it returned

llmVars == <<pc, messages, stream, request, requests, backend, pos, out, clientOpen, responseOpen,
            transportFailed, status_code>>
docVars == <<store, resp, latest>>
cfgVars == <<settings, llm_base_url, sresp>>
promptVars == <<rag_context, rag_question, rag_prompt>>
vars == <<llmVars, docVars, cfgVars, promptVars>>

----------------------------------------------------------------------------
\* Bounds of the model.

\* Longest conversation passed to chat_completion.
MaxMsgs == 2
\* Longest response body (in lines) the backend sends.
MaxLines == 3

----------------------------------------------------------------------------
\* Strings (Python str operations used by the code).

\* str.startswith
StartsWith(s, p) == Len(s) >= Len(p) /\ SubSeq(s, 1, Len(p)) = p

\* str.endswith
EndsWith(s, p) == Len(s) >= Len(p) /\ SubSeq(s, Len(s) - Len(p) + 1, Len(s)) = p

\* s[n:]
DropPrefix(s, n) == SubSeq(s, n + 1, Len(s))

\* All sequences over S of length at most n.
SeqsUpTo(S, n) == UNION {[1..k -> S] : k \in 0..n}

----------------------------------------------------------------------------
\* LLM client (backend/llm.py).

\* The default system prompt (rendered in ASCII; the source text is Japanese).
DEFAULT_SYSTEM_PROMPT ==
    "You are a kind and knowledgeable AI assistant. Give accurate, clear answers; use the provided reference material when there is any."

Roles == {"system", "user", "assistant"}
Contents == {"hello"}
Message == [role : Roles, content : Contents]
Conversations == SeqsUpTo(Message, MaxMsgs)

\* The wire lines a response body is made of.
DataPrefix == "data: "
DoneMarker == "[DONE]"
Lines == {"data: a", "data: b", "data: [DONE]", "", "data:[DONE]"}
Bodies == SeqsUpTo(Lines, MaxLines)
StatusCodes == {200, 201, 500}

\* response.is_success, the test of raise_for_status: a 2xx status.
IsSuccess(status) == status \div 100 = 2
Temperature == "0.7"

\* Bug: the system prompt is added only when no message at all has role
\* system, wherever it stands.
MessagesDictAnySystem(msgs) ==
    LET dicts == [i \in 1..Len(msgs) |-> [role |-> msgs[i].role, content |-> msgs[i].content]]
    IN  IF \A i \in 1..Len(dicts) : dicts[i].role # "system"
        THEN <<[role |-> "system", content |-> DEFAULT_SYSTEM_PROMPT]>> \o dicts
        ELSE dicts

\* messages_dict, after the system prompt was added if not present.
MessagesDict(msgs) ==
    LET dicts == [i \in 1..Len(msgs) |-> [role |-> msgs[i].role, content |-> msgs[i].content]]
    IN  IF Len(dicts) = 0 \/ dicts[1].role # "system"
        THEN <<[role |-> "system", content |-> DEFAULT_SYSTEM_PROMPT]>> \o dicts
        ELSE dicts

\* The request payload.
Payload(msgs, strm) ==
    [model |-> settings.lm_studio_model,
     messages |-> MessagesDict(msgs),
     temperature |-> Temperature,
     stream |-> strm]

Request(msgs, strm) ==
    [url |-> llm_base_url \o "/chat/completions", json |-> Payload(msgs, strm)]

\* What the caller observes.
Event(data) == [kind |-> "event", data |-> data]
EndOfStream == [kind |-> "end", data |-> ""]
Error(e) == [kind |-> "error", data |-> e]

RECURSIVE JoinLines(_)
\* response.text of a body: its lines joined by newlines.
JoinLines(ls) ==
    IF Len(ls) = 0 THEN ""
    ELSE IF Len(ls) = 1 THEN ls[1]
    ELSE ls[1] \o "\n" \o JoinLines(Tail(ls))

\* Leaving the `async with` blocks: the response and the client are closed.
ExitContexts ==
    /\ responseOpen' = FALSE
    /\ clientOpen' = FALSE

\* An exception leaves the generator: the caller sees it, once.
Raise(e) ==
    /\ out' = Append(out, Error(e))
    /\ pc' = "error"

\* Bug: the except clause swallows the exception and the generator ends
\* as if the stream had ended.
OnExceptionSwallow(e) ==
    /\ ExitContexts
    /\ out' = Append(out, [kind |-> "end", data |-> ""])
    /\ pc' = "done"

\* An exception inside the `async with` blocks: they are left, and the
\* except clauses log and re-raise.
OnException(e) ==
    /\ ExitContexts
    /\ Raise(e)

\* The caller calls chat_completion(messages, stream) and starts iterating:
\* the payload is built, the AsyncClient context is entered and
\* client.stream / client.post is called with the url and the payload as
\* they are now; the coroutine is suspended until the connection is made.
Call ==
    /\ pc = "idle"
    /\ \E msgs \in Conversations, strm \in BOOLEAN :
        /\ messages' = msgs
        /\ stream' = strm
        /\ request' = Request(msgs, strm)
    /\ clientOpen' = TRUE
    /\ pc' = "opened"
    /\ UNCHANGED <<requests, backend, pos, out, responseOpen>>
    /\ UNCHANGED <<transportFailed, status_code, docVars, cfgVars, promptVars>>

\* The request goes out to the backend; the coroutine stays suspended until
\* the response arrives.
Send ==
    /\ pc = "opened"
    /\ requests' = Append(requests, request)
    /\ pc' = "sent"
    /\ UNCHANGED <<messages, stream, request, backend, pos, out, clientOpen, responseOpen>>
    /\ UNCHANGED <<transportFailed, status_code, docVars, cfgVars, promptVars>>

\* Streaming: client.stream("POST", ...) gets the response headers, then
\* response.raise_for_status().
OpenStream ==
    /\ pc = "sent"
    /\ stream
    /\ \E status \in StatusCodes, body \in Bodies :
        /\ status_code' = status
        /\ backend' = body
        /\ IF IsSuccess(status)
           THEN /\ responseOpen' = TRUE
                /\ pc' = "reading"
                /\ UNCHANGED <<out, clientOpen>>
           ELSE OnException("HTTPStatusError")
    /\ UNCHANGED <<messages, stream, request, requests, pos>>
    /\ UNCHANGED <<transportFailed, docVars, cfgVars, promptVars>>

\* Bug: the marker is skipped like any other line (`continue` for `break`).
HandleLineNoBreak(line) ==
    IF StartsWith(line, DataPrefix) /\ DropPrefix(line, Len(DataPrefix)) # DoneMarker
    THEN /\ out' = Append(out, Event(DropPrefix(line, Len(DataPrefix))))
         /\ pc' = "yielded"
         /\ UNCHANGED <<clientOpen, responseOpen>>
    ELSE /\ UNCHANGED <<out, pc, clientOpen, responseOpen>>

\* Bug: the prefix is cut one character short (line[5:]).
HandleLineOffByOne(line) ==
    IF StartsWith(line, DataPrefix)
    THEN LET data == DropPrefix(line, Len(DataPrefix) - 1)
         IN  IF data = DoneMarker
             THEN /\ out' = Append(out, [kind |-> "end", data |-> ""])
                  /\ pc' = "done"
                  /\ ExitContexts
             ELSE /\ out' = Append(out, Event(data))
                  /\ pc' = "yielded"
                  /\ UNCHANGED <<clientOpen, responseOpen>>
    ELSE /\ UNCHANGED <<out, pc, clientOpen, responseOpen>>

\* Variant: a line without the data prefix fails the request.
HandleLineStrict(line) ==
    IF StartsWith(line, DataPrefix)
    THEN LET data == DropPrefix(line, Len(DataPrefix))
         IN  IF data = DoneMarker
             THEN /\ out' = Append(out, [kind |-> "end", data |-> ""])
                  /\ pc' = "done"
                  /\ ExitContexts
             ELSE /\ out' = Append(out, Event(data))
                  /\ pc' = "yielded"
                  /\ UNCHANGED <<clientOpen, responseOpen>>
    ELSE OnException("ProtocolError")

\* The handling of one line of the body (the body of the `async for`).
HandleLine(line) ==
    IF StartsWith(line, DataPrefix)
    THEN LET data == DropPrefix(line, Len(DataPrefix))
         IN  IF data = DoneMarker
             THEN \* break: the generator ends
                  /\ out' = Append(out, EndOfStream)
                  /\ pc' = "done"
                  /\ ExitContexts
             ELSE \* yield data
                  /\ out' = Append(out, Event(data))
                  /\ pc' = "yielded"
                  /\ UNCHANGED <<clientOpen, responseOpen>>
    ELSE \* no else branch: the line is skipped
         /\ UNCHANGED <<out, pc, clientOpen, responseOpen>>

\* Streaming: aiter_lines() hands out the next line.
RecvLine ==
    /\ pc = "reading"
    /\ pos < Len(backend)
    /\ pos' = pos + 1
    /\ HandleLine(backend[pos + 1])
    /\ UNCHANGED <<messages, stream, request, requests, backend>>
    /\ UNCHANGED <<transportFailed, status_code, docVars, cfgVars, promptVars>>

\* Streaming: aiter_lines() is exhausted, the loop and the generator end.
StreamEnd ==
    /\ pc = "reading"
    /\ pos = Len(backend)
    /\ out' = Append(out, EndOfStream)
    /\ pc' = "done"
    /\ ExitContexts
    /\ UNCHANGED <<messages, stream, request, requests, backend, pos>>
    /\ UNCHANGED <<transportFailed, status_code, docVars, cfgVars, promptVars>>

\* The caller asks for the next item: the generator resumes after its yield.
\* Non-streaming: nothing follows the yield, the generator ends.
Resume ==
    /\ pc = "yielded"
    /\ IF stream
       THEN /\ pc' = "reading"
            /\ UNCHANGED <<out, clientOpen, responseOpen>>
       ELSE /\ out' = Append(out, EndOfStream)
            /\ pc' = "done"
            /\ ExitContexts
    /\ UNCHANGED <<messages, stream, request, requests, backend, pos>>
    /\ UNCHANGED <<transportFailed, status_code, docVars, cfgVars, promptVars>>

\* Bug: response.raise_for_status() is left out of the non-streaming branch,
\* so the body of an error response is yielded like a completion.
PostNoStatusCheck ==
    /\ pc = "sent"
    /\ ~stream
    /\ \E status \in StatusCodes, body \in Bodies :
        /\ status_code' = status
        /\ backend' = body
        /\ out' = Append(out, Event(JoinLines(body)))
        /\ pc' = "yielded"
        /\ UNCHANGED <<clientOpen, responseOpen>>
    /\ UNCHANGED <<messages, stream, request, requests, pos>>
    /\ UNCHANGED <<transportFailed, docVars, cfgVars, promptVars>>

\* Non-streaming: client.post(...), raise_for_status(), yield response.text.
Post ==
    /\ pc = "sent"
    /\ ~stream
    /\ \E status \in StatusCodes, body \in Bodies :
        /\ status_code' = status
        /\ backend' = body
        /\ IF IsSuccess(status)
           THEN /\ out' = Append(out, Event(JoinLines(body)))
                /\ pc' = "yielded"
                /\ UNCHANGED <<clientOpen, responseOpen>>
           ELSE OnException("HTTPStatusError")
    /\ UNCHANGED <<messages, stream, request, requests, pos>>
    /\ UNCHANGED <<transportFailed, docVars, cfgVars, promptVars>>

\* A transport-level failure (httpx.TransportError) while connecting, while
\* waiting for the response or while reading the body: it propagates through the except clauses.
TransportFailure ==
    /\ pc \in {"opened", "sent", "reading"}
    /\ transportFailed' = TRUE
    /\ OnException("TransportError")
    /\ UNCHANGED <<messages, stream, request, requests, backend, pos>>
    /\ UNCHANGED <<status_code, docVars, cfgVars, promptVars>>

\* Bug: the generator is abandoned with its contexts still entered.
CancelLeak ==
    /\ pc \in {"opened", "sent", "reading", "yielded"}
    /\ pc' = "cancelled"
    /\ UNCHANGED <<messages, stream, request, requests, backend, pos, out, clientOpen, responseOpen>>
    /\ UNCHANGED <<transportFailed, status_code, docVars, cfgVars, promptVars>>

\* The caller cancels consumption: aclose() at a yield, or asyncio
\* cancellation while the generator awaits. GeneratorExit and CancelledError
\* are not Exceptions: no except clause handles them, and the `async with`
\* blocks are left.
Cancel ==
    /\ pc \in {"opened", "sent", "reading", "yielded"}
    /\ pc' = "cancelled"
    /\ ExitContexts
    /\ UNCHANGED <<messages, stream, request, requests, backend, pos, out>>
    /\ UNCHANGED <<transportFailed, status_code, docVars, cfgVars, promptVars>>

InitLLM ==
    /\ pc = "idle"
    /\ messages = <<>>
    /\ stream = TRUE
    /\ request = <<>>
    /\ requests = <<>>
    /\ backend = <<>>
    /\ pos = 0
    /\ out = <<>>
    /\ clientOpen = FALSE
    /\ responseOpen = FALSE
    /\ transportFailed = FALSE
    /\ status_code = 0

NextLLM ==
    \/ Call
    \/ Send
    \/ OpenStream
    \/ RecvLine
    \/ StreamEnd
    \/ Resume
    \/ Post
    \/ TransportFailure
    \/ Cancel

----------------------------------------------------------------------------
\* RAG prompt (backend/llm.py, create_rag_prompt).

\* Most items retrieved for one question.
MaxContext == 2

\* The literals of the prompt (rendered in ASCII; the source text is Japanese).
ReferenceLabel == "Reference"
UnknownFilename == "unknown"

\* The items a retrieval hands over: a content, and a metadata dict that may
\* be missing, or present without a filename.
PromptContents == {"x", "y z"}
PromptFilenames == {"a.md", "b.txt"}
Questions == {"", "q?"}
MetadataDict(keys, f) == [k \in keys |-> f]
Metadatas ==
    {MetadataDict(keys, f) : keys \in SUBSET {"filename"}, f \in PromptFilenames}
ContextItem(keys, c, m) == [k \in keys |-> IF k = "content" THEN c ELSE m]
ContextItems ==
    {ContextItem(keys, c, m) : keys \in {{"content"}, {"content", "metadata"}},
                               c \in PromptContents, m \in Metadatas}
Contexts == SeqsUpTo(ContextItems, MaxContext)

\* One decimal digit.
Digit(d) ==
    CASE d = 0 -> "0" [] d = 1 -> "1" [] d = 2 -> "2" [] d = 3 -> "3" [] d = 4 -> "4"
      [] d = 5 -> "5" [] d = 6 -> "6" [] d = 7 -> "7" [] d = 8 -> "8" [] d = 9 -> "9"

RECURSIVE Str(_)
\* str(n) of a natural number, as an f-string formats it.
Str(n) == IF n < 10 THEN Digit(n) ELSE Str(n \div 10) \o Digit(n % 10)

\* dict.get(key, default)
Get(d, key, default) == IF key \in DOMAIN d THEN d[key] ELSE default

RECURSIVE Join(_, _)
\* sep.join(parts)
Join(sep, parts) ==
    IF Len(parts) = 0 THEN ""
    ELSE IF Len(parts) = 1 THEN parts[1]
    ELSE parts[1] \o sep \o Join(sep, Tail(parts))

\* The body of the loop: the part appended for the i-th item.
ContextPart(i, item) ==
    LET content == item["content"]
        metadata == Get(item, "metadata", <<>>)
        filename == Get(metadata, "filename", UnknownFilename)
    IN  "[" \o ReferenceLabel \o " " \o Str(i) \o ": " \o filename \o "]\n" \o content

\* Bug: the items are numbered from 0 (enumerate without its start).
create_rag_prompt_zero_based(context, question) ==
    IF Len(context) = 0
    THEN question
    ELSE LET context_parts == [i \in 1..Len(context) |-> ContextPart(i - 1, context[i])]
             context_text == Join("\n\n", context_parts)
         IN  question \o "\n\n" \o ReferenceLabel \o ":\n" \o context_text

\* create_rag_prompt(context, question)
create_rag_prompt(context, question) ==
    IF Len(context) = 0
    THEN question
    ELSE LET context_parts == [i \in 1..Len(context) |-> ContextPart(i, context[i])]
             context_text == Join("\n\n", context_parts)
         IN  question \o "\n\n" \o ReferenceLabel \o ":\n" \o context_text

\* One call of create_rag_prompt.
CreateRagPrompt ==
    /\ \E c \in Contexts, q \in Questions :
        /\ rag_context' = c
        /\ rag_question' = q
        /\ rag_prompt' = create_rag_prompt(c, q)
    /\ UNCHANGED <<llmVars, docVars, cfgVars>>

InitPrompt ==
    /\ rag_context = <<>>
    /\ rag_question = ""
    /\ rag_prompt = ""

NextPrompt == CreateRagPrompt

----------------------------------------------------------------------------
\* Configuration (backend/config.py) and its runtime update (backend/main.py).

\* JSON values of a request body: null, or an object (a function on its keys).
Null == [type |-> "null"]
Dict(d) == [type |-> "dict", val |-> d]
IsDict(v) == v.type = "dict"
\* Python's `key in value`, for an object.
HasKey(v, k) == k \in DOMAIN v.val

\* Settings(): the defaults of the class.
DefaultSettings ==
    [backend_port |-> 8000,
     backend_host |-> "0.0.0.0",
     lm_studio_base_url |-> "http://localhost:8080/v1",
     lm_studio_model |-> "/Users/matsbaccano/Library/Caches/llama.cpp/"
                         \o "bartowski_google_gemma-3n-E4B-it-GGUF_google_gemma-3n-E4B-it-Q6_K.gguf",
     chroma_persist_dir |-> "../chroma_data",
     chroma_collection_name |-> "documents",
     embedding_model |-> "intfloat/multilingual-e5-base",
     embedding_device |-> "cpu",
     rag_top_k |-> 3,
     rag_similarity_threshold |-> "0.5",
     chunk_size |-> 1000,
     chunk_overlap |-> 200,
     cors_origins |-> "http://localhost:3000,https://localhost:3000,http://localhost:3001,https://localhost:3001"]

SettingsFields == DOMAIN DefaultSettings

\* The update payloads: any of the sections llm, rag and embeddings, each
\* null or an object with any of its keys.
Urls == {"http://localhost:1234/v1"}
TopKs == {1, 5}
Thresholds == {"0.7"}

LlmDict(keys, u) ==
    [k \in keys |-> CASE k = "base_url" -> u [] k = "model" -> "other.gguf"]
LlmSections ==
    {Null} \cup {Dict(LlmDict(keys, u)) : keys \in SUBSET {"base_url", "model"}, u \in Urls}

RagDict(keys, t, s) ==
    [k \in keys |-> CASE k = "top_k" -> t
                      [] k = "similarity_threshold" -> s
                      [] k = "chunk_size" -> 500]
RagSections ==
    {Null} \cup {Dict(RagDict(keys, t, s)) :
                    keys \in SUBSET {"top_k", "similarity_threshold", "chunk_size"},
                    t \in TopKs, s \in Thresholds}

EmbeddingSections == {Dict([device |-> "cuda"])}

UpdateDict(keys, l, r, e) ==
    [k \in keys |-> CASE k = "llm" -> l [] k = "rag" -> r [] k = "embeddings" -> e]
UpdatePayloads ==
    {UpdateDict(keys, l, r, e) :
        keys \in SUBSET {"llm", "rag", "embeddings"},
        l \in LlmSections, r \in RagSections, e \in EmbeddingSections}

\* `if "llm" in update_data:` ... evaluates `key in update_data["llm"]`, a
\* TypeError when the section is not an object.
LlmRaises(data) == "llm" \in DOMAIN data /\ ~IsDict(data["llm"])
RagRaises(data) == "rag" \in DOMAIN data /\ ~IsDict(data["rag"])

\* The settings after the "Update LLM settings" block.
ApplyLlm(s, data) ==
    IF "llm" \in DOMAIN data /\ IsDict(data["llm"]) /\ HasKey(data["llm"], "base_url")
    THEN [s EXCEPT !.lm_studio_base_url = data["llm"].val["base_url"]]
    ELSE s

LlmFields(data) ==
    IF "llm" \in DOMAIN data /\ IsDict(data["llm"]) /\ HasKey(data["llm"], "base_url")
    THEN <<"llm.base_url">>
    ELSE <<>>

\* Bug: the RAG block also assigns the chunk size it is given.
ApplyRagChunkSize(s, data) ==
    IF "rag" \in DOMAIN data /\ IsDict(data["rag"])
    THEN LET rag == data["rag"]
             s1 == IF HasKey(rag, "top_k")
                   THEN [s EXCEPT !.rag_top_k = rag.val["top_k"]]
                   ELSE s
             s2 == IF HasKey(rag, "similarity_threshold")
                   THEN [s1 EXCEPT !.rag_similarity_threshold = rag.val["similarity_threshold"]]
                   ELSE s1
         IN  IF HasKey(rag, "chunk_size")
             THEN [s2 EXCEPT !.chunk_size = rag.val["chunk_size"]]
             ELSE s2
    ELSE s

\* The settings after the "Update RAG settings" block.
ApplyRag(s, data) ==
    IF "rag" \in DOMAIN data /\ IsDict(data["rag"])
    THEN LET rag == data["rag"]
             s1 == IF HasKey(rag, "top_k")
                   THEN [s EXCEPT !.rag_top_k = rag.val["top_k"]]
                   ELSE s
         IN  IF HasKey(rag, "similarity_threshold")
             THEN [s1 EXCEPT !.rag_similarity_threshold = rag.val["similarity_threshold"]]
             ELSE s1
    ELSE s

RagFields(data) ==
    IF "rag" \in DOMAIN data /\ IsDict(data["rag"])
    THEN (IF HasKey(data["rag"], "top_k") THEN <<"rag.top_k">> ELSE <<>>)
         \o (IF HasKey(data["rag"], "similarity_threshold")
             THEN <<"rag.similarity_threshold">> ELSE <<>>)
    ELSE <<>>

\* PUT /api/settings
update_settings(data) ==
    /\ UNCHANGED <<llmVars, docVars, promptVars>>
    /\ IF LlmRaises(data)
       THEN \* the exception is caught: 500, nothing was assigned
            /\ sresp' = [request |-> data, status |-> 500, updated_fields |-> <<>>]
            /\ UNCHANGED <<settings, llm_base_url>>
       ELSE /\ llm_base_url' = ApplyLlm(settings, data).lm_studio_base_url
            /\ IF RagRaises(data)
               THEN \* 500 after the LLM block has assigned
                    /\ settings' = ApplyLlm(settings, data)
                    /\ sresp' = [request |-> data, status |-> 500, updated_fields |-> <<>>]
               ELSE /\ settings' = ApplyRag(ApplyLlm(settings, data), data)
                    /\ sresp' = [request |-> data, status |-> 200,
                                 updated_fields |-> LlmFields(data) \o RagFields(data)]

NoRequest == [request |-> <<>>, status |-> 0, updated_fields |-> <<>>]

InitSettings ==
    /\ settings = DefaultSettings
    /\ llm_base_url = DefaultSettings.lm_studio_base_url
    /\ sresp = NoRequest

NextSettings ==
    \E data \in UpdatePayloads : update_settings(data)

----------------------------------------------------------------------------
\* Text processing (text_processing.py: modelled from its contract).

\* Chunk size and overlap the chunker runs with (settings.chunk_size and
\* settings.chunk_overlap, scaled down to the model's short texts).
ChunkSize == 4
ChunkOverlap == 1

\* The characters str.strip() removes, those with str.isspace(): space,
\* tab, newline, carriage return, form feed, and, written as the characters
\* themselves, U+000B, U+001C, U+001D, U+001E, U+001F, U+0085, U+00A0 and
\* U+1680. The other Unicode spaces (U+2000..U+200A, U+2028, U+2029, U+202F,
\* U+205F, U+3000) cannot be written in a string of a module, so no text of
\* the model holds them.
Whitespace ==
    {" ", "\t", "\n", "\r", "\f",
     "", "", "", "", "", "", " ", " "}

RECURSIVE LStrip(_)
\* str.lstrip()
LStrip(s) ==
    IF Len(s) > 0 /\ SubSeq(s, 1, 1) \in Whitespace THEN LStrip(DropPrefix(s, 1)) ELSE s

RECURSIVE RStrip(_)
\* str.rstrip()
RStrip(s) ==
    IF Len(s) > 0 /\ SubSeq(s, Len(s), Len(s)) \in Whitespace
    THEN RStrip(SubSeq(s, 1, Len(s) - 1))
    ELSE s

\* str.strip()
Strip(s) == LStrip(RStrip(s))

RECURSIVE CollapseSpaces(_)
CollapseSpaces(s) ==
    IF Len(s) < 2 THEN s
    ELSE IF SubSeq(s, 1, 2) = "  " THEN CollapseSpaces(DropPrefix(s, 1))
    ELSE SubSeq(s, 1, 1) \o CollapseSpaces(DropPrefix(s, 1))

\* clean_text: whitespace is collapsed and the ends are stripped.
clean_text(text) == Strip(CollapseSpaces(text))

RECURSIVE LastDotPart(_)
\* filename.split(".")[-1]
LastDotPart(s) ==
    IF \E i \in 1..Len(s) : SubSeq(s, i, i) = "."
    THEN LastDotPart(DropPrefix(s, CHOOSE i \in 1..Len(s) : SubSeq(s, i, i) = "."))
    ELSE s

RECURSIVE ChunksFrom(_, _)
\* The spans of `text` from offset `start` on: each at most ChunkSize long,
\* each starting ChunkOverlap before the end of the one before.
ChunksFrom(text, start) ==
    LET end == IF start + ChunkSize < Len(text) THEN start + ChunkSize ELSE Len(text)
    IN  IF end = Len(text)
        THEN <<SubSeq(text, start + 1, end)>>
        ELSE <<SubSeq(text, start + 1, end)>> \o ChunksFrom(text, end - ChunkOverlap)

\* create_chunks_with_metadata: the ids, the chunks and their metadata.
ChunkTexts(text) == ChunksFrom(text, 0)
ChunkId(filename, i) == <<filename, i>>
ChunkIds(text, filename) ==
    [i \in 1..Len(ChunkTexts(text)) |-> ChunkId(filename, i - 1)]
ChunkMetadatas(text, filename, file_type) ==
    [i \in 1..Len(ChunkTexts(text)) |->
        [filename |-> filename,
         file_type |-> file_type,
         chunk_index |-> i - 1,
         char_count |-> Len(ChunkTexts(text)[i])]]

\* embedding_model.encode_documents: one vector per chunk, a function of
\* the chunk's text (embeddings.py: modelled from its contract).
EncodeDocuments(chunks) == [i \in 1..Len(chunks) |-> [vector_of |-> chunks[i]]]

----------------------------------------------------------------------------
\* The vector store (vectordb.py: modelled from its contract).

\* The store is the sequence of its records, in the order of their
\* insertion; get_all_documents hands them out in this order.

\* One record written: over the record that has its id, else at the end.
Put(st, rec) ==
    IF \E i \in 1..Len(st) : st[i].id = rec.id
    THEN [i \in 1..Len(st) |-> IF st[i].id = rec.id THEN rec ELSE st[i]]
    ELSE Append(st, rec)

RECURSIVE AddDocuments(_, _, _, _, _)
\* add_documents: the records are written in one step; a record whose id
\* is in the store already is overwritten.
AddDocuments(st, ids, documents, embeddings, metadatas) ==
    IF Len(ids) = 0 THEN st
    ELSE AddDocuments(Put(st, [id |-> ids[1],
                               document |-> documents[1],
                               embedding |-> embeddings[1],
                               metadata |-> metadatas[1]]),
                      Tail(ids), Tail(documents), Tail(embeddings), Tail(metadatas))

\* The records delete_by_filename removes: those of `filename`, in the order
\* of the store.
RecordsOfFilename(st, filename) ==
    SelectSeq(st, LAMBDA r : r.metadata.filename = filename)

\* delete_by_filename: the store without the records of `filename`.
DeleteByFilename(st, filename) ==
    SelectSeq(st, LAMBDA r : r.metadata.filename # filename)

\* reset: the empty collection.
ResetStore == <<>>

\* count
Count(st) == Len(st)

----------------------------------------------------------------------------
\* Document handlers (backend/routes/documents.py).

DocFilenames == {"a.md"}
TextFilenames == {"a.md", "notes"}
ContentTypes == {"", "text/plain"}
\* (the second text is a newline and the character U+000B)
Texts == {"", "\n", " ab", "abcdef"}
\* Where a request fails from outside: text extraction, the chunker, the
\* embedding model, the store.
Failures == {"none", "extract", "chunk", "embed", "store"}

\* The last request (its operation, its filename, the failure it met, the
\* store's count when it arrived) and its response (status, chunk count).
Response(op, filename, fail, status, chunks) ==
    [op |-> op, filename |-> filename, fail |-> fail, before |-> Count(store),
     status |-> status, chunks |-> chunks]

\* Bug: the chunks are added to the store before their embeddings are
\* computed, so a failing embedding model leaves them behind.
upload_document_add_first(filename, content_type, content, fail) ==
    /\ UNCHANGED <<llmVars, cfgVars, promptVars>>
    /\ LET file_type == IF content_type # "" THEN content_type ELSE LastDotPart(filename)
           text == clean_text(content)
           chunk_ids == ChunkIds(text, filename)
           chunks == ChunkTexts(text)
           metadatas == ChunkMetadatas(text, filename, file_type)
           embeddings == EncodeDocuments(chunks)
       IN  IF fail = "extract"
           THEN /\ resp' = Response("upload", filename, fail, 500, 0)
                /\ UNCHANGED <<store, latest>>
           ELSE IF Strip(text) = ""
           THEN /\ resp' = Response("upload", filename, fail, 400, 0)
                /\ UNCHANGED <<store, latest>>
           ELSE IF fail \in {"chunk", "store"}
           THEN /\ resp' = Response("upload", filename, fail, 500, 0)
                /\ UNCHANGED <<store, latest>>
           ELSE IF fail = "embed"
           THEN /\ store' = AddDocuments(store, chunk_ids, chunks, embeddings, metadatas)
                /\ resp' = Response("upload", filename, fail, 500, 0)
                /\ UNCHANGED latest
           ELSE /\ store' = AddDocuments(store, chunk_ids, chunks, embeddings, metadatas)
                /\ resp' = Response("upload", filename, fail, 200, Len(chunks))
                /\ latest' = [latest EXCEPT ![filename] = chunks]

\* POST /upload
upload_document(filename, content_type, content, fail) ==
    /\ UNCHANGED <<llmVars, cfgVars, promptVars>>
    /\ LET file_type == IF content_type # "" THEN content_type ELSE LastDotPart(filename)
           text == clean_text(content)
           chunk_ids == ChunkIds(text, filename)
           chunks == ChunkTexts(text)
           metadatas == ChunkMetadatas(text, filename, file_type)
           embeddings == EncodeDocuments(chunks)
       IN  IF fail = "extract"
           THEN \* extract_text_from_file raises
                /\ resp' = Response("upload", filename, fail, 500, 0)
                /\ UNCHANGED <<store, latest>>
           ELSE IF Strip(text) = ""
           THEN /\ resp' = Response("upload", filename, fail, 400, 0)
                /\ UNCHANGED <<store, latest>>
           ELSE IF fail \in {"chunk", "embed", "store"}
           THEN \* create_chunks_with_metadata, encode_documents or
                \* add_documents raises
                /\ resp' = Response("upload", filename, fail, 500, 0)
                /\ UNCHANGED <<store, latest>>
           ELSE /\ store' = AddDocuments(store, chunk_ids, chunks, embeddings, metadatas)
                /\ resp' = Response("upload", filename, fail, 200, Len(chunks))
                /\ latest' = [latest EXCEPT ![filename] = chunks]

\* POST /upload-text
upload_text(request_filename, request_text, fail) ==
    /\ UNCHANGED <<llmVars, cfgVars, promptVars>>
    /\ LET text == clean_text(request_text)
           filename == IF EndsWith(request_filename, ".md") \/ EndsWith(request_filename, ".txt")
                       THEN request_filename
                       ELSE request_filename \o ".md"
           chunk_ids == ChunkIds(text, filename)
           chunks == ChunkTexts(text)
           metadatas == ChunkMetadatas(text, filename, "markdown")
           embeddings == EncodeDocuments(chunks)
       IN  IF Strip(text) = ""
           THEN /\ resp' = Response("upload-text", request_filename, fail, 400, 0)
                /\ UNCHANGED <<store, latest>>
           ELSE IF fail \in {"chunk", "embed", "store"}
           THEN /\ resp' = Response("upload-text", filename, fail, 500, 0)
                /\ UNCHANGED <<store, latest>>
           ELSE /\ store' = AddDocuments(store, chunk_ids, chunks, embeddings, metadatas)
                /\ resp' = Response("upload-text", filename, fail, 200, Len(chunks))
                /\ latest' = [latest EXCEPT ![filename] = chunks]

RECURSIVE SumCharCount(_)
\* The char_count of the records, added up.
SumCharCount(records) ==
    IF Len(records) = 0 THEN 0
    ELSE records[1].metadata.char_count + SumCharCount(Tail(records))

\* GET /list: documents_map, the chunks grouped by filename.
list_documents(st) ==
    LET filenames == {st[i].metadata.filename : i \in 1..Len(st)}
    IN  [f \in filenames |->
            [filename |-> f,
             chunk_count |-> Len(RecordsOfFilename(st, f)),
             total_chars |-> SumCharCount(RecordsOfFilename(st, f))]]

\* c put behind the chunks of `sorted` whose chunk index is not larger.
InsertByChunkIndex(sorted, c) ==
    LET k == Cardinality({i \in 1..Len(sorted) : sorted[i].chunk_index <= c.chunk_index})
    IN  SubSeq(sorted, 1, k) \o <<c>> \o SubSeq(sorted, k + 1, Len(sorted))

RECURSIVE SortByChunkIndex(_)
\* chunks.sort(key=chunk_index): a stable sort, chunks with the same index
\* keep their order.
SortByChunkIndex(cs) ==
    IF Len(cs) = 0 THEN <<>>
    ELSE InsertByChunkIndex(SortByChunkIndex(SubSeq(cs, 1, Len(cs) - 1)), cs[Len(cs)])

\* GET /content/{filename}: 404 when no chunk has the filename, else the
\* chunks sorted by chunk index.
get_document_content(st, filename) ==
    LET records == RecordsOfFilename(st, filename)
        chunks == [i \in 1..Len(records) |->
                      [chunk_index |-> records[i].metadata.chunk_index,
                       content |-> records[i].document,
                       char_count |-> records[i].metadata.char_count]]
    IN  IF Len(chunks) = 0
        THEN [status |-> 404, total_chunks |-> 0, chunks |-> <<>>]
        ELSE [status |-> 200, total_chunks |-> Len(chunks),
              chunks |-> SortByChunkIndex(chunks)]

\* GET /count
get_document_count(st) == [total_chunks |-> Count(st)]

\* Bug: no 404 when nothing was deleted.
delete_document_no_404(filename, fail) ==
    /\ UNCHANGED <<llmVars, cfgVars, promptVars>>
    /\ LET deleted_count == Len(RecordsOfFilename(store, filename))
       IN  IF fail = "store"
           THEN /\ resp' = Response("delete", filename, fail, 500, 0)
                /\ UNCHANGED <<store, latest>>
           ELSE /\ resp' = Response("delete", filename, fail, 200, deleted_count)
                /\ store' = DeleteByFilename(store, filename)
                /\ latest' = [latest EXCEPT ![filename] = <<>>]

\* DELETE /{filename}
delete_document(filename, fail) ==
    /\ UNCHANGED <<llmVars, cfgVars, promptVars>>
    /\ LET deleted_count == Len(RecordsOfFilename(store, filename))
       IN  IF fail = "store"
           THEN \* delete_by_filename raises
                /\ resp' = Response("delete", filename, fail, 500, 0)
                /\ UNCHANGED <<store, latest>>
           ELSE IF deleted_count = 0
           THEN /\ resp' = Response("delete", filename, fail, 404, 0)
                /\ store' = DeleteByFilename(store, filename)
                /\ UNCHANGED latest
           ELSE /\ resp' = Response("delete", filename, fail, 200, deleted_count)
                /\ store' = DeleteByFilename(store, filename)
                /\ latest' = [latest EXCEPT ![filename] = <<>>]

\* Bug: a failure of the store's reset is swallowed and success reported.
reset_collection_swallow(fail) ==
    /\ UNCHANGED <<llmVars, cfgVars, promptVars>>
    /\ IF fail = "store"
       THEN /\ resp' = Response("reset", "", fail, 200, 0)
            /\ UNCHANGED <<store, latest>>
       ELSE /\ resp' = Response("reset", "", fail, 200, 0)
            /\ store' = ResetStore
            /\ latest' = [f \in DOMAIN latest |-> <<>>]

\* POST /reset
reset_collection(fail) ==
    /\ UNCHANGED <<llmVars, cfgVars, promptVars>>
    /\ IF fail = "store"
       THEN \* vector_db.reset raises
            /\ resp' = Response("reset", "", fail, 500, 0)
            /\ UNCHANGED <<store, latest>>
       ELSE /\ resp' = Response("reset", "", fail, 200, 0)
            /\ store' = ResetStore
            /\ latest' = [f \in DOMAIN latest |-> <<>>]

StoredFilenames == DocFilenames \cup TextFilenames \cup {"notes.md"}

InitDocs ==
    /\ store = <<>>
    /\ resp = Response("none", "", "none", 0, 0)
    /\ latest = [f \in StoredFilenames |-> <<>>]

NextDocs ==
    \/ \E f \in DocFilenames, ct \in ContentTypes, c \in Texts, fail \in Failures :
            upload_document(f, ct, c, fail)
    \/ \E f \in TextFilenames, t \in Texts, fail \in Failures \ {"extract"} :
            upload_text(f, t, fail)
    \/ \E f \in StoredFilenames, fail \in {"none", "store"} : delete_document(f, fail)
    \/ \E fail \in {"none", "store"} : reset_collection(fail)

----------------------------------------------------------------------------
\* Specifications.

Init == InitLLM /\ InitDocs /\ InitSettings /\ InitPrompt

\* The whole backend: a call of chat_completion, the document handlers and
\* the settings updates, interleaved.
Next == NextLLM \/ NextDocs \/ NextSettings \/ NextPrompt

Spec == Init /\ [][Next]_vars

\* One call of chat_completion, alone.
SpecLLM == Init /\ [][NextLLM]_vars

\* The document handlers over the vector store, alone.
SpecDocs == Init /\ [][NextDocs]_vars

\* Runtime settings updates, alone.
SpecSettings == Init /\ [][NextSettings]_vars

\* Calls of create_rag_prompt, alone.
SpecPrompt == Init /\ [][NextPrompt]_vars

----------------------------------------------------------------------------
\* Properties of chat_completion.

\* The events the caller received, in order.
Delivered ==
    LET ev == SelectSeq(out, LAMBDA o : o.kind = "event")
    IN  [i \in 1..Len(ev) |-> ev[i].data]

\* The wire protocol: a payload p travels as the line "data: p", the end of
\* the stream as the line "data: [DONE]".
PayloadTexts == {"a", "b"}
MarkerLine == "data: [DONE]"
IsPayloadLine(l) == \E p \in PayloadTexts : l = "data: " \o p
OtherFraming(l) == ~IsPayloadLine(l) /\ l # MarkerLine

RECURSIVE PayloadsOf(_)
\* The payloads a sequence of lines carries.
PayloadsOf(ls) ==
    IF Len(ls) = 0 THEN <<>>
    ELSE (IF IsPayloadLine(ls[1])
          THEN <<CHOOSE p \in PayloadTexts : ls[1] = "data: " \o p>>
          ELSE <<>>) \o PayloadsOf(Tail(ls))

\* The place of the first marker in a body (past its end when it has none).
FirstMarker(ls) ==
    IF \E i \in 1..Len(ls) : ls[i] = MarkerLine
    THEN CHOOSE i \in 1..Len(ls) : ls[i] = MarkerLine /\ \A j \in 1..(i - 1) : ls[j] # MarkerLine
    ELSE Len(ls) + 1

\* C1: in streaming mode the relay stops at the terminal marker: no line
\* after the first "data: [DONE]" is consumed, the marker is not forwarded,
\* no payload the body holds after the marker is delivered, and once the
\* marker was consumed the generator has ended.
C1_StopsAtMarker ==
    stream =>
        LET m == FirstMarker(backend)
        IN  /\ pos <= m
            /\ \A k \in 1..Len(Delivered) : Delivered[k] # "[DONE]"
            /\ Len(Delivered) <= Len(PayloadsOf(SubSeq(backend, 1, m - 1)))
            /\ (pos = m => pc = "done")

\* A stream that ended at the marker while the backend had a payload left.
C1_Witness ==
    /\ stream /\ pc = "done"
    /\ pos >= 1 /\ pos < Len(backend)
    /\ backend[pos] = MarkerLine
    /\ IsPayloadLine(backend[pos + 1])
    /\ Len(Delivered) >= 1

\* C2: in streaming mode the events delivered are, at every moment, the
\* payloads of the lines consumed so far, in arrival order; when the stream
\* ended at the marker they are the payloads of the lines before the marker.
C2_ForwardsInOrder ==
    stream =>
        /\ Delivered = PayloadsOf(SubSeq(backend, 1, pos))
        /\ (pc = "done" /\ pos >= 1 /\ backend[pos] = MarkerLine
                => Delivered = PayloadsOf(SubSeq(backend, 1, pos - 1)))

\* Two different payloads, then the marker.
C2_Witness ==
    /\ stream /\ pc = "done"
    /\ pos = 3 /\ backend[pos] = MarkerLine
    /\ Len(Delivered) = 2 /\ Delivered[1] # Delivered[2]

\* C3 as stated: a consumed line that is neither a payload line nor the
\* marker has failed the request.
C3_Original ==
    stream => \A i \in 1..pos : OtherFraming(backend[i]) => pc = "error"

\* C3, amended: in streaming mode a line that is neither a payload line nor
\* the marker is skipped: consuming it delivers nothing, raises nothing and
\* leaves the stream open and being read.
C3_SkipsOtherLines ==
    [][(stream /\ pc = "reading" /\ pos' = pos + 1 /\ OtherFraming(backend[pos + 1]))
        => (out' = out /\ pc' = "reading" /\ clientOpen' /\ responseOpen')]_vars

\* An event delivered after such a line was consumed, and no error.
C3_Witness ==
    /\ stream /\ pc = "yielded"
    /\ pos >= 2
    /\ OtherFraming(backend[pos - 1])
    /\ IsPayloadLine(backend[pos])
    /\ \A k \in 1..Len(out) : out[k].kind = "event"

\* C4: in streaming mode a transport failure is surfaced as an error: the
\* failing step appends exactly the error to what was delivered; from then
\* on the generator is in its error state, the error is the last thing the
\* caller observed, everything before it is an event (no end-of-stream, no
\* second error), and nothing is delivered any more.
C4_TransportFailureSurfaced ==
    /\ []((stream /\ transportFailed) =>
            /\ pc = "error"
            /\ Len(out) >= 1
            /\ out[Len(out)] = Error("TransportError")
            /\ \A k \in 1..(Len(out) - 1) : out[k].kind = "event")
    /\ [][/\ (stream /\ ~transportFailed /\ transportFailed')
                => out' = Append(out, Error("TransportError"))
          /\ (stream /\ transportFailed) => out' = out]_vars

\* A failure after two events were delivered.
C4_Witness ==
    /\ stream /\ transportFailed
    /\ Len(out) = 3
    /\ Len(Delivered) = 2

\* C5: once the caller has cancelled, the response and the client are
\* closed, and the cancelling step delivers no event, nor does any later one.
C5_CancelClosesAndStops ==
    /\ [](pc = "cancelled" => ~clientOpen /\ ~responseOpen)
    /\ [][/\ pc' = "cancelled" => out' = out
          /\ pc = "cancelled" => (pc' = "cancelled" /\ out' = out /\ pos' = pos)]_vars

\* A cancellation after an event, with lines of the body still to come.
C5_Witness ==
    /\ stream /\ pc = "cancelled"
    /\ Len(Delivered) >= 1
    /\ pos < Len(backend)

DefaultSystemMessage == [role |-> "system", content |-> DEFAULT_SYSTEM_PROMPT]

\* C6: the message list of every request sent starts with a system
\* message: the default one followed by the caller's messages when the
\* conversation is empty or does not start with role system, the caller's
\* conversation itself otherwise.
C6_SystemMessageFirst ==
    \A r \in 1..Len(requests) :
        LET sent == requests[r].json.messages
        IN  /\ Len(sent) >= 1
            /\ sent[1].role = "system"
            /\ IF Len(messages) = 0 \/ messages[1].role # "system"
               THEN /\ Len(sent) = Len(messages) + 1
                    /\ sent[1] = DefaultSystemMessage
                    /\ \A i \in 1..Len(messages) : sent[i + 1] = messages[i]
               ELSE sent = messages

\* A request for a conversation whose system message is not the first.
C6_Witness ==
    /\ Len(requests) = 1
    /\ Len(messages) = 2
    /\ messages[1].role = "user" /\ messages[2].role = "system"

----------------------------------------------------------------------------
\* Properties of the document handlers.

Uploads == {"upload", "upload-text"}

\* The step is a successful ingestion (of filename f).
IngestionStep == resp'.op \in Uploads /\ resp'.status = 200
IngestionStepOf(f) == IngestionStep /\ resp'.filename = f

\* What the read handlers show of a filename.
Listed(st, f) == f \in DOMAIN list_documents(st)
Found(st, f) == get_document_content(st, f).status = 200

\* C7: ingestion is all-or-nothing: an upload that met a failure (text
\* extraction, chunking, embedding, the store's add) ends in an error, a
\* successful one has indexed at least one chunk, and a request that ends in
\* an error (the empty cleaned text included) leaves the store exactly as it
\* was.
C7_IngestionAllOrNothing ==
    /\ []((resp.op \in Uploads /\ resp.fail # "none") => resp.status \in {400, 500})
    /\ []((resp.op \in Uploads /\ resp.status = 200) => resp.chunks >= 1)
    /\ [][(resp'.op \in Uploads /\ resp'.status # 200) => store' = store]_vars

\* An upload whose embedding failed, on a store that holds records.
C7_Witness ==
    /\ resp.op = "upload" /\ resp.fail = "embed" /\ resp.status = 500
    /\ resp.before >= 1
    /\ Count(store) = resp.before

\* C8: a successful delete_document(f) removes f from what list_documents
\* and get_document_content show, reports at least one chunk, lowers the
\* count by exactly the chunks reported and leaves every record of another
\* filename as it was; when no record has filename f the request ends in
\* 404 and the store is unchanged; and a filename that is not shown stays
\* so until a successful ingestion of it.
C8_DeleteRemovesDocument ==
    [][/\ \A f \in StoredFilenames :
            (resp'.op = "delete" /\ resp'.filename = f) =>
                /\ (resp'.status = 200 =>
                        /\ ~Listed(store', f)
                        /\ ~Found(store', f)
                        /\ resp'.chunks >= 1
                        /\ get_document_count(store').total_chunks
                             = get_document_count(store).total_chunks - resp'.chunks
                        /\ \A i \in 1..Len(store) :
                                store[i].metadata.filename # f
                                    => \E j \in 1..Len(store') : store'[j] = store[i]
                        /\ \A g \in StoredFilenames \ {f} :
                                get_document_content(store', g) = get_document_content(store, g))
                /\ (resp'.status # 200 => store' = store)
                /\ ((resp'.fail = "none" /\ ~Listed(store, f)) => resp'.status = 404)
                /\ (resp'.status = 404 => ~Listed(store, f))
       /\ \A f \in StoredFilenames :
             (~Listed(store, f) /\ ~IngestionStepOf(f))
                 => (~Listed(store', f) /\ ~Found(store', f))]_vars

\* A delete that removed the two chunks of a document and left others.
C8_Witness ==
    /\ resp.op = "delete" /\ resp.status = 200
    /\ resp.chunks = 2
    /\ Count(store) >= 1
    /\ Count(store) = resp.before - 2

\* C9: after a successful reset_collection the count is 0 and no document
\* is listed, and an empty store stays empty until a successful ingestion.
C9_ResetEmptiesStore ==
    [][/\ (resp'.op = "reset" /\ resp'.status = 200) =>
            /\ get_document_count(store').total_chunks = 0
            /\ DOMAIN list_documents(store') = {}
       /\ (get_document_count(store).total_chunks = 0 /\ ~IngestionStep) =>
             /\ get_document_count(store').total_chunks = 0
             /\ DOMAIN list_documents(store') = {}]_vars

\* A reset of a store that held the chunks of two documents.
C9_Witness ==
    /\ resp.op = "reset" /\ resp.status = 200
    /\ resp.before >= 3
    /\ get_document_count(store).total_chunks = 0

----------------------------------------------------------------------------
\* Properties of the settings update.

MutableFields == {"lm_studio_base_url", "rag_top_k", "rag_similarity_threshold"}

\* C10: an update of the settings leaves every field other than the
\* completion endpoint URL, the RAG top-K and the RAG similarity threshold
\* as it was, whatever the payload.
C10_OnlyMutableFieldsChange ==
    [][\A f \in SettingsFields \ MutableFields : settings'[f] = settings[f]]_vars

\* A successful update whose payload also named a model, a chunk size and
\* an embedding device.
C10_Witness ==
    /\ sresp.status = 200
    /\ Len(sresp.updated_fields) = 3
    /\ DOMAIN sresp.request = {"llm", "rag", "embeddings"}
    /\ "model" \in DOMAIN sresp.request["llm"].val
    /\ "chunk_size" \in DOMAIN sresp.request["rag"].val
    /\ settings.lm_studio_base_url # DefaultSettings.lm_studio_base_url
    /\ settings.rag_top_k # DefaultSettings.rag_top_k

----------------------------------------------------------------------------
\* Properties of create_rag_prompt.

\* The position of the first occurrence of `sep` in s (0: none).
IndexOf(s, sep) ==
    LET at == {i \in 1..(Len(s) - Len(sep) + 1) : SubSeq(s, i, i + Len(sep) - 1) = sep}
    IN  IF at = {} THEN 0 ELSE CHOOSE i \in at : \A j \in at : i <= j

RECURSIVE SplitOn(_, _)
\* The pieces of s between the occurrences of `sep`.
SplitOn(s, sep) ==
    IF IndexOf(s, sep) = 0 THEN <<s>>
    ELSE <<SubSeq(s, 1, IndexOf(s, sep) - 1)>>
         \o SplitOn(DropPrefix(s, IndexOf(s, sep) + Len(sep) - 1), sep)

\* The line that opens the reference section, after a blank line.
SectionOpening == "\n\n" \o ReferenceLabel \o ":\n"

\* The name an item is labelled with: its metadata's filename, or the
\* placeholder when it carries none.
SourceName(item) ==
    IF "metadata" \in DOMAIN item /\ "filename" \in DOMAIN item["metadata"]
    THEN item["metadata"]["filename"]
    ELSE UnknownFilename

\* The label of the item at position i.
ItemLabel(i, item) == "[" \o ReferenceLabel \o " " \o Str(i) \o ": " \o SourceName(item) \o "]"

\* The reference section of the returned prompt, cut at its blank lines.
ReferenceEntries ==
    SplitOn(DropPrefix(rag_prompt, Len(rag_question) + Len(SectionOpening)), "\n\n")

\* C11: create_rag_prompt returns the question unchanged when the context is
\* empty; otherwise the prompt is the question, then the opening of the
\* reference section, then one entry per context item, in the given order:
\* the entry at position i (counted from 1) is the label carrying i and the
\* item's filename, a newline, and the item's content.
C11_PromptListsContext ==
    IF rag_context = <<>>
    THEN rag_prompt = rag_question
    ELSE /\ StartsWith(rag_prompt, rag_question \o SectionOpening)
         /\ Len(ReferenceEntries) = Len(rag_context)
         /\ \A i \in 1..Len(rag_context) :
                ReferenceEntries[i]
                    = ItemLabel(i, rag_context[i]) \o "\n" \o rag_context[i]["content"]

\* A prompt was built for a question and two items, one of them without a
\* filename.
C11_Witness ==
    /\ Len(rag_context) = 2
    /\ rag_question # ""
    /\ \E i \in 1..2 : SourceName(rag_context[i]) = UnknownFilename
    /\ \E i \in 1..2 : SourceName(rag_context[i]) \in PromptFilenames
    /\ rag_context[1] # rag_context[2]
    /\ rag_prompt # rag_question

----------------------------------------------------------------------------
\* Properties of the non-streaming mode.

\* C12: in non-streaming mode at most one request is ever sent to the
\* backend; once its response has arrived with a 2xx status, exactly one
\* request was sent and the caller gets exactly one unit, the whole response
\* text, and after it the normal end; after a transport failure or a
\* response with another status the call is in its error state, the caller
\* observed the error and nothing else: no unit, no normal end.
C12_NonStreamingOneUnit ==
    ~stream =>
        /\ Len(requests) <= 1
        /\ Len(Delivered) <= 1
        /\ requests # <<>> => (requests = <<request>> /\ request = Request(messages, FALSE))
        /\ status_code # 0 => Len(requests) = 1
        /\ IsSuccess(status_code) =>
            /\ pc \in {"yielded", "done", "cancelled"}
            /\ Delivered = <<JoinLines(backend)>>
            /\ \A k \in 1..Len(out) : out[k].kind # "error"
        /\ pc = "done" => out = <<Event(JoinLines(backend)), EndOfStream>>
        /\ (transportFailed \/ (status_code # 0 /\ ~IsSuccess(status_code))) =>
            /\ pc = "error"
            /\ Len(out) = 1
            /\ out[1].kind = "error"
            /\ Delivered = <<>>
        /\ pc = "error" => transportFailed \/ (status_code # 0 /\ ~IsSuccess(status_code))

\* A non-streaming call whose response had several lines has ended: its
\* text arrived as one unit.
C12_Witness ==
    /\ ~stream
    /\ pc = "done"
    /\ Len(backend) >= 2
    /\ Len(requests) = 1
    /\ Len(Delivered) = 1

----------------------------------------------------------------------------
\* Properties of re-ingestion.

\* The chunk texts GET /content/{filename} returns for f, in chunk order
\* (none when it answers 404).
ContentOf(st, f) ==
    LET chunks == get_document_content(st, f).chunks
    IN  [i \in 1..Len(chunks) |-> chunks[i].content]

\* C13: after any sequence of ingestions, deletions and resets, the chunks
\* stored for a filename are exactly the chunks of its most recent
\* successful ingestion (none after its deletion or a reset): the store
\* holds as many records for it, GET /list reports that chunk count, and
\* GET /content returns those chunks and no other.
C13_OnlyLatestIngestion ==
    \A f \in StoredFilenames :
        /\ Len(RecordsOfFilename(store, f)) = Len(latest[f])
        /\ Listed(store, f) <=> latest[f] # <<>>
        /\ Listed(store, f) => list_documents(store)[f].chunk_count = Len(latest[f])
        /\ get_document_content(store, f).total_chunks = Len(latest[f])
        /\ ContentOf(store, f) = latest[f]

----------------------------------------------------------------------------
\* Properties of the end of a stream.

\* C14: a streaming completion has ended normally only if the last line it
\* received from the backend was the terminal marker "data: [DONE]".
C14_NormalEndOnlyAfterMarker ==
    (stream /\ pc = "done") =>
        /\ pos >= 1
        /\ backend[pos] = MarkerLine
        /\ out[Len(out)] = EndOfStream

====
